---- MODULE Spec2Model ----
(***************************************************************************)
(* A model of ntpc, the one-shot NTP clock synchroniser (revision v0.3).   *)
(*                                                                         *)
(* Spec   : one run of main(): argument parsing, the user host stage, the  *)
(*          built-in pool stage, the clock setter and the exit code.       *)
(* XSpec  : one call of query_ntp_server() on an environment drawn from a  *)
(*          wide set of responses (the validator's input space).           *)
(* QSpec  : one call of sync_with_server_multi_sample(), each exchange     *)
(*          taken call by call with the socket it holds.                   *)
(* PSpec  : the request packet and the timestamp codec, for the request    *)
(*          builders of v0.3, v1.1 and ntpc.exe.c.                         *)
(* ASpec  : the delay/correction arithmetic and the averaging.             *)
(* LiveSpec : the runs of main with every call returning (termination).    *)
(*                                                                         *)
(* 32-bit words are pairs <<hi, lo>> of 16-bit halves, so that wrap-around *)
(* at 2^31 and 2^32 is computed exactly.                                   *)
(* The clock setter follows the POSIX branch of set_system_time_platform.  *)
(***************************************************************************)
EXTENDS Integers, Sequences, FiniteSets, TLC

VARIABLES
    argv,           \* argv[1..argc-1], each argument a sequence of characters
    argi,           \* main: index i of the argument loop
    samples,        \* main: samples
    custom_server,  \* main: custom_server; <<>> is NULL, <<h>> points to h
    pc,             \* position of main
    success,        \* main: success
    exit_code,      \* value returned by main; -1 while running
    fatal,          \* the fatal diagnostic printed on stderr, "none" if none
    help_shown,     \* print_usage was called
    host,           \* host being sampled: 0 user host, k pool entry k
    si,             \* sync_with_server_multi_sample: loop index i
    success_count,  \* sync_with_server_multi_sample: success_count
    results,        \* sync_with_server_multi_sample: results[0..i-1].error
    result_error,   \* main: result.error
    uid_root,       \* environment: getuid() == 0
    order,          \* history: the hosts whose sampling was started, in order
    sampled_ok,     \* history: the hosts whose sampling returned NTP_SUCCESS
    set_log,        \* history: the clock setter's invocations <<host, error>>
    only_timeouts,  \* history: every exchange so far ended in a receive timeout
    sum_time,       \* sync_with_server_multi_sample: the addends of sum_time, each
                    \* <<host, i, bytes, accepted>>: the exchange it came from
    exchanges,      \* history: the number of calls of query_ntp_server
    x_env,          \* XSpec: the environment of the exchange
    x_result,       \* XSpec: the ntp_result returned
    x_done,         \* XSpec: the exchange has returned
    q_pc,           \* QSpec: position in sync_with_server_multi_sample / query_ntp_server
    q_samples,      \* QSpec: samples
    q_i,            \* QSpec: loop index i
    q_sock,         \* QSpec: query_ntp_server: sock
    q_open,         \* QSpec: the number of sockets the process holds open
    q_error,        \* QSpec: query_ntp_server: result.error
    q_bytes,        \* QSpec: query_ntp_server: bytes
    q_steps,        \* QSpec: history: the calls of the current exchange, <<call, value>>
    q_results,      \* QSpec: results[0..i-1].error
    q_success_count,\* QSpec: success_count
    q_final,        \* QSpec: the error of the value returned, "none" before the return
    p_pc,           \* PSpec: position: "start", "encoded", "sent", "decoded"
    p_variant,      \* PSpec: the revision whose request is built
    p_t,            \* PSpec: t1, the client send time
    p_pair,         \* PSpec: t1_sec, t1_frac
    p_request,      \* PSpec: the packet handed to sendto
    p_decoded,      \* PSpec: the value decoded from the pair in the request
    a_pc,           \* ASpec: position in sync_with_server_multi_sample
    a_samples,      \* ASpec: samples
    a_i,            \* ASpec: loop index i
    a_results,      \* ASpec: results[0..i-1], each with the timestamps it came from
    a_sum_time,     \* ASpec: sum_time
    a_sum_delay,    \* ASpec: sum_delay
    a_success_count,\* ASpec: success_count
    a_final         \* ASpec: the value returned, <<>> before the return

vars == <<argv, argi, samples, custom_server, pc, success, exit_code, fatal,
          help_shown, host, si, success_count, results, result_error, uid_root,
          order, sampled_ok, set_log, only_timeouts, sum_time, exchanges,
          x_env, x_result, x_done,
          q_pc, q_samples, q_i, q_sock, q_open, q_error, q_bytes, q_steps,
          q_results, q_success_count, q_final,
          p_pc, p_variant, p_t, p_pair, p_request, p_decoded,
          a_pc, a_samples, a_i, a_results, a_sum_time, a_sum_delay,
          a_success_count, a_final>>

qvars == <<q_pc, q_samples, q_i, q_sock, q_open, q_error, q_bytes, q_steps,
           q_results, q_success_count, q_final>>

pvars == <<p_pc, p_variant, p_t, p_pair, p_request, p_decoded>>

avars == <<a_pc, a_samples, a_i, a_results, a_sum_time, a_sum_delay,
           a_success_count, a_final>>

\* the variables of the specifications other than Spec and XSpec
restvars == <<qvars, pvars, avars>>

mainvars == <<argv, argi, samples, custom_server, pc, success, exit_code, fatal,
              help_shown, host, si, success_count, results, result_error,
              uid_root, order, sampled_ok, set_log, only_timeouts, sum_time,
              exchanges>>

xvars == <<x_env, x_result, x_done>>

-----------------------------------------------------------------------------
(* Program constants                                                       *)

NTP_PACKET_SIZE == 48
MAX_HOSTNAME_LEN == 255
MAX_SAMPLES == 5
MAX_VALID_STRATUM == 15
INTERNAL_SERVER_COUNT == 3
INTERNAL_NTP_SERVERS == <<"ntp.aliyun.com", "time.cloudflare.com", "pool.ntp.org">>

NTP_SUCCESS == "NTP_SUCCESS"
NTP_ERR_DNS_FAILED == "NTP_ERR_DNS_FAILED"
NTP_ERR_SOCKET_CREATE == "NTP_ERR_SOCKET_CREATE"
NTP_ERR_SEND_FAILED == "NTP_ERR_SEND_FAILED"
NTP_ERR_RECV_TIMEOUT == "NTP_ERR_RECV_TIMEOUT"
NTP_ERR_INVALID_RESPONSE == "NTP_ERR_INVALID_RESPONSE"
NTP_ERR_INVALID_STRATUM == "NTP_ERR_INVALID_STRATUM"
NTP_ERR_SET_TIME_FAILED == "NTP_ERR_SET_TIME_FAILED"
NTP_ERR_PERMISSION_DENIED == "NTP_ERR_PERMISSION_DENIED"
NTP_ERR_INVALID_HOSTNAME == "NTP_ERR_INVALID_HOSTNAME"

-----------------------------------------------------------------------------
(* uint32_t as <<hi, lo>>, 16 bits each                                    *)

HALF == 65536

U32(hi, lo) == <<hi, lo>>

Add32(a, b) ==
    LET lo == a[2] + b[2]
        hi == a[1] + b[1] + (lo \div HALF)
    IN  <<hi % HALF, lo % HALF>>

Sub32(a, b) ==
    LET lo == a[2] - b[2]
        hi == a[1] - b[1] - (IF lo < 0 THEN 1 ELSE 0)
    IN  <<hi % HALF, lo % HALF>>

\* 2208988800 = 0x83AA7E80
NTP_TIMESTAMP_DELTA == U32(33706, 32384)

swap16(x) == (x % 256) * 256 + (x \div 256)

\* byte order conversion on a little-endian host: the four bytes reversed
ntohl(w) == <<swap16(w[2]), swap16(w[1])>>

htonl(w) == <<swap16(w[2]), swap16(w[1])>>

\* (int)a - (int)b as the mathematical integer dh * 2^16 + dl, 0 <= dl < 2^16
IntDiff(a, b) ==
    LET sa == IF a[1] >= HALF \div 2 THEN a[1] - HALF ELSE a[1]
        sb == IF b[1] >= HALF \div 2 THEN b[1] - HALF ELSE b[1]
        dl == a[2] - b[2]
    IN  IF dl < 0 THEN <<sa - sb - 1, dl + HALF>> ELSE <<sa - sb, dl>>

\* abs((int)a - (int)b) is defined: the subtraction does not overflow int and
\* its result is not INT_MIN
SecDiffDefined(a, b) ==
    LET d == IntDiff(a, b)
    IN  /\ d[1] >= -(HALF \div 2)
        /\ d[1] < HALF \div 2
        /\ ~(d[1] = -(HALF \div 2) /\ d[2] = 0)

\* abs((int)a - (int)b) where defined
SecDiff(a, b) ==
    LET d == IntDiff(a, b)
        v == d[1] * HALF + d[2]
    IN  IF v < 0 THEN -v ELSE v

-----------------------------------------------------------------------------
(* validate_ntp_response: 1 accept, 0 reject.  ub is the outcome of the    *)
(* comparison sec_diff > 1 where the signed arithmetic is undefined.       *)

validate_ntp_response(packet, sent_sec, sent_frac, ub) ==
    LET mode == packet.li_vn_mode % 8
        resp_orig_sec == ntohl(packet.orig_ts_sec)
        too_far == IF SecDiffDefined(resp_orig_sec, sent_sec)
                   THEN SecDiff(resp_orig_sec, sent_sec) > 1
                   ELSE ub
    IN  IF mode # 4 /\ mode # 5 THEN 0
        ELSE IF packet.stratum = 0 THEN 0
        ELSE IF packet.stratum > MAX_VALID_STRATUM THEN 0
        ELSE IF too_far THEN 0
        ELSE IF ntohl(packet.trans_ts_sec) = U32(0, 0) THEN 0
        ELSE 1

-----------------------------------------------------------------------------
(* query_ntp_server on an environment env:                                 *)
(*   dns_ok, sock_ok, send_ok : getaddrinfo, socket, sendto succeed        *)
(*   t1        : (uint32_t)t1, the local send time in Unix seconds         *)
(*   t1_frac   : the fraction of t1 in units of 2^-32 s                    *)
(*   bytes     : what recv returns (-1 on timeout)                         *)
(*   packet    : the buffer after recv                                     *)
(*   ub        : see validate_ntp_response                                 *)

t1_sec_of(t1) == Add32(t1, NTP_TIMESTAMP_DELTA)

query_ntp_server(env) ==
    IF ~env.dns_ok THEN [error |-> NTP_ERR_DNS_FAILED]
    ELSE IF ~env.sock_ok THEN [error |-> NTP_ERR_SOCKET_CREATE]
    ELSE IF ~env.send_ok THEN [error |-> NTP_ERR_SEND_FAILED]
    ELSE IF env.bytes < NTP_PACKET_SIZE THEN [error |-> NTP_ERR_RECV_TIMEOUT]
    ELSE IF validate_ntp_response(env.packet, t1_sec_of(env.t1), env.t1_frac, env.ub) = 0
         THEN [error |-> NTP_ERR_INVALID_RESPONSE]
    ELSE [error |-> NTP_SUCCESS]

-----------------------------------------------------------------------------
(* Command line: an argument is a sequence of characters                   *)

Lower == {"a","b","c","d","e","f","g","h","i","j","k","l","m",
          "n","o","p","q","r","s","t","u","v","w","x","y","z"}
Upper == {"A","B","C","D","E","F","G","H","I","J","K","L","M",
          "N","O","P","Q","R","S","T","U","V","W","X","Y","Z"}
Digit == {"0","1","2","3","4","5","6","7","8","9"}

DigitVal(c) == CHOOSE d \in 0..9 : <<"0","1","2","3","4","5","6","7","8","9">>[d + 1] = c

RECURSIVE atoi_digits(_, _, _)
atoi_digits(s, k, acc) ==
    IF k > Len(s) \/ s[k] \notin Digit THEN acc
    ELSE atoi_digits(s, k + 1, acc * 10 + DigitVal(s[k]))

\* atoi of libc: optional sign, then the leading run of digits (0 if none)
atoi(s) ==
    IF Len(s) >= 1 /\ s[1] = "-" THEN -atoi_digits(s, 2, 0)
    ELSE IF Len(s) >= 1 /\ s[1] = "+" THEN atoi_digits(s, 2, 0)
    ELSE atoi_digits(s, 1, 0)

validate_hostname_no_charset(hostname) ==
    IF Len(hostname) = 0 \/ Len(hostname) > MAX_HOSTNAME_LEN THEN 0 ELSE 1

validate_hostname(hostname) ==
    IF Len(hostname) = 0 \/ Len(hostname) > MAX_HOSTNAME_LEN THEN 0
    ELSE IF \E k \in 1..Len(hostname) :
               hostname[k] \notin (Lower \cup Upper \cup Digit \cup {".", "-"})
         THEN 0
    ELSE 1

-----------------------------------------------------------------------------
(* The clock setter, POSIX branch: getuid() != 0, then settimeofday        *)

set_system_time_platform(root, settimeofday_ok) ==
    IF ~root THEN NTP_ERR_PERMISSION_DENIED
    ELSE IF ~settimeofday_ok THEN NTP_ERR_SET_TIME_FAILED
    ELSE NTP_SUCCESS

-----------------------------------------------------------------------------
(* sync_with_server_multi_sample: the error of the value returned          *)

multi_sample_error_ignoring_count(count) == NTP_SUCCESS

multi_sample_error(count) ==
    IF count = 0 THEN NTP_ERR_RECV_TIMEOUT ELSE NTP_SUCCESS

-----------------------------------------------------------------------------
(* main: the decisions that follow a call of the clock setter              *)

stage2_entered_always(s) == TRUE

\* if (!success), before the pool loop
stage2_entered(s) == s = 0

pool_loop_never_breaks(set_error) == FALSE

\* the break of the pool loop
pool_loop_breaks(set_error) == set_error = NTP_SUCCESS

exit_status_inverted(s) == IF s # 0 THEN 1 ELSE 0

\* return success ? 0 : 1
exit_status(s) == IF s # 0 THEN 0 ELSE 1

-----------------------------------------------------------------------------
(* Inputs                                                                  *)

MaxArgs == 3

Str_h == <<"-", "h">>
Str_help == <<"-", "-", "h", "e", "l", "p">>
Str_s == <<"-", "s">>
LongName == [k \in 1..(MAX_HOSTNAME_LEN + 1) |-> "a"]

\* a sample count below the range comes from atoi of a non-number, which is 0
Args == { Str_h, Str_help, Str_s,
          <<"2">>, <<"6">>,
          <<"n", ".", "T", "-", "1">>,      \* a well-formed host name
          <<"a", "/", "b">>,                \* a host name with a '/'
          <<>>,                             \* the empty string
          LongName,                         \* 256 characters
          <<"-", "/">> }                    \* an unknown option

RECURSIVE SeqsUpTo(_, _)
SeqsUpTo(S, n) ==
    IF n = 0 THEN {<<>>}
    ELSE LET shorter == SeqsUpTo(S, n - 1)
         IN  shorter \cup {Append(q, a) : q \in shorter, a \in S}

\* the local send time of the runs of Spec: 1704067200 = 0x65920080
T1_RUN == U32(26002, 128)

Packet(mode_byte, stratum, orig, tsec, tfrac) ==
    [li_vn_mode |-> mode_byte, stratum |-> stratum,
     orig_ts_sec |-> htonl(orig),
     trans_ts_sec |-> htonl(tsec), trans_ts_frac |-> htonl(tfrac)]

Env(dns, sock, send, t1, bytes, packet, ub) ==
    [dns_ok |-> dns, sock_ok |-> sock, send_ok |-> send, t1 |-> t1,
     t1_frac |-> U32(0, 0), bytes |-> bytes, packet |-> packet, ub |-> ub]

RunPackets ==
    LET sent == t1_sec_of(T1_RUN)
    IN  { Packet(28, 2, sent, sent, U32(0, 7)),                    \* a good response
          Packet(27, 2, sent, sent, U32(0, 7)),                    \* mode 3
          Packet(28, 0, sent, sent, U32(0, 7)),                    \* stratum 0
          Packet(28, 16, sent, sent, U32(0, 7)),                   \* stratum 16
          Packet(28, 2, Add32(sent, U32(0, 2)), sent, U32(0, 7)),  \* foreign origin
          Packet(28, 2, sent, U32(0, 0), U32(0, 0)) }              \* zero transmit

\* the environments of the exchanges of a run
RunEnvs ==
    LET good == CHOOSE p \in RunPackets : TRUE
    IN  { Env(FALSE, TRUE, TRUE, T1_RUN, -1, good, FALSE),
          Env(TRUE, FALSE, TRUE, T1_RUN, -1, good, FALSE),
          Env(TRUE, TRUE, FALSE, T1_RUN, -1, good, FALSE),
          Env(TRUE, TRUE, TRUE, T1_RUN, -1, good, FALSE),
          Env(TRUE, TRUE, TRUE, T1_RUN, 0, good, FALSE),
          Env(TRUE, TRUE, TRUE, T1_RUN, NTP_PACKET_SIZE - 1, good, FALSE) }
        \cup { Env(TRUE, TRUE, TRUE, T1_RUN, NTP_PACKET_SIZE, p, FALSE) : p \in RunPackets }

\* how far from 0, 2^31 and 2^32 the second values of XSpec reach
SecSpread == 2

SecSamples ==
    { U32(0, k) : k \in 0..SecSpread }
    \cup { U32(HALF \div 2 - 1, HALF - k) : k \in 1..SecSpread }
    \cup { U32(HALF \div 2, k) : k \in 0..SecSpread }
    \cup { U32(HALF - 1, HALF - k) : k \in 1..SecSpread }

\* the environments of XSpec: every combination of the fields the validator reads
WideEnvs ==
    { Env(TRUE, TRUE, TRUE, Sub32(sent, NTP_TIMESTAMP_DELTA), NTP_PACKET_SIZE,
          Packet(m, st, orig, tr[1], tr[2]), ub) :
        m \in {27, 28, 29, 30, 36, 228},
        st \in {0, 1, MAX_VALID_STRATUM, MAX_VALID_STRATUM + 1, 255},
        orig \in SecSamples, sent \in SecSamples,
        tr \in { <<U32(0, 0), U32(0, 0)>>, <<U32(0, 0), U32(0, 1)>>,
                 <<U32(0, 1), U32(0, 0)>>, <<U32(59000, 5), U32(32768, 0)>> },
        ub \in BOOLEAN }
    \cup { e \in RunEnvs : e.bytes < NTP_PACKET_SIZE }

NoEnv == Env(FALSE, FALSE, FALSE, U32(0, 0), -1, Packet(0, 0, U32(0, 0), U32(0, 0), U32(0, 0)), FALSE)

-----------------------------------------------------------------------------
(* Spec: one run of main                                                   *)

MainInit ==
    /\ argi = 1
    /\ samples = 1
    /\ custom_server = <<>>
    /\ pc = "parse"
    /\ success = 0
    /\ exit_code = -1
    /\ fatal = "none"
    /\ help_shown = FALSE
    /\ host = 0
    /\ si = 0
    /\ success_count = 0
    /\ results = <<>>
    /\ result_error = NTP_ERR_RECV_TIMEOUT
    /\ order = <<>>
    /\ sampled_ok = {}
    /\ set_log = <<>>
    /\ only_timeouts = TRUE
    /\ sum_time = <<>>
    /\ exchanges = 0

\* QSpec is not running
QIdle ==
    /\ q_pc = "idle"
    /\ q_samples = 0
    /\ q_i = 0
    /\ q_sock = -1
    /\ q_open = 0
    /\ q_error = NTP_ERR_DNS_FAILED
    /\ q_bytes = -1
    /\ q_steps = <<>>
    /\ q_results = <<>>
    /\ q_success_count = 0
    /\ q_final = "none"

\* PSpec is not running
PIdle ==
    /\ p_pc = "idle"
    /\ p_variant = "none"
    /\ p_t = <<>>
    /\ p_pair = <<>>
    /\ p_request = <<>>
    /\ p_decoded = <<>>

\* ASpec is not running
AIdle ==
    /\ a_pc = "idle"
    /\ a_samples = 0
    /\ a_i = 0
    /\ a_results = <<>>
    /\ a_sum_time = <<0, 1>>
    /\ a_sum_delay = <<0, 1>>
    /\ a_success_count = 0
    /\ a_final = <<>>

RestIdle == QIdle /\ PIdle /\ AIdle

Init ==
    /\ argv \in SeqsUpTo(Args, MaxArgs)
    /\ uid_root \in BOOLEAN
    /\ MainInit
    /\ x_env = NoEnv
    /\ x_result = [error |-> NTP_ERR_DNS_FAILED]
    /\ x_done = FALSE
    /\ RestIdle

Return(code, message) ==
    /\ exit_code' = code
    /\ fatal' = message
    /\ pc' = "done"

\* the call sync_with_server_multi_sample(h, samples): its locals at entry
CallMultiSample(h) ==
    /\ host' = h
    /\ si' = 0
    /\ success_count' = 0
    /\ results' = <<>>
    /\ sum_time' = <<>>
    /\ order' = Append(order, h)
    /\ pc' = "sample"

samples_rejected_low_only(n) == n < 1

\* if (samples < 1 || samples > MAX_SAMPLES)
samples_rejected(n) == n < 1 \/ n > MAX_SAMPLES

\* one iteration of the argument loop
ParseArg ==
    /\ pc = "parse"
    /\ argi <= Len(argv)
    /\ LET a == argv[argi]
       IN  \/ /\ a \in {Str_h, Str_help}
              /\ help_shown' = TRUE
              /\ Return(0, "none")
              /\ UNCHANGED <<argi, samples, custom_server>>
           \/ /\ a \notin {Str_h, Str_help}
              /\ a = Str_s
              /\ argi + 1 <= Len(argv)
              /\ samples' = atoi(argv[argi + 1])
              /\ \/ /\ samples_rejected(samples')
                    /\ Return(1, "samples_range")
                    /\ UNCHANGED argi
                 \/ /\ ~samples_rejected(samples')
                    /\ argi' = argi + 2
                    /\ UNCHANGED <<exit_code, fatal, pc>>
              /\ UNCHANGED <<custom_server, help_shown>>
           \/ /\ a \notin {Str_h, Str_help}
              /\ a = Str_s
              /\ ~(argi + 1 <= Len(argv))
              /\ Return(1, "samples_missing")
              /\ UNCHANGED <<argi, samples, custom_server, help_shown>>
           \/ /\ a \notin {Str_h, Str_help, Str_s}
              /\ custom_server' = IF Len(a) = 0 \/ a[1] # "-" THEN <<a>> ELSE custom_server
              /\ argi' = argi + 1
              /\ UNCHANGED <<samples, exit_code, fatal, pc, help_shown>>
    /\ UNCHANGED <<argv, success, host, si, success_count, results, result_error,
                   uid_root, order, sampled_ok, set_log, only_timeouts, sum_time,
                   exchanges, xvars, restvars>>

\* the end of the argument loop, init_networking and stage 1 up to the call
Stage1 ==
    /\ pc = "parse"
    /\ argi > Len(argv)
    /\ \/ /\ custom_server # <<>>
          /\ validate_hostname(custom_server[1]) = 0
          /\ Return(1, "invalid_hostname")
          /\ UNCHANGED <<host, si, success_count, results, sum_time, order>>
       \/ /\ custom_server # <<>>
          /\ validate_hostname(custom_server[1]) # 0
          /\ CallMultiSample(0)
          /\ UNCHANGED <<exit_code, fatal>>
       \/ /\ custom_server = <<>>
          /\ CallMultiSample(1)
          /\ UNCHANGED <<exit_code, fatal>>
    /\ UNCHANGED <<argv, argi, samples, custom_server, success, help_shown,
                   result_error, uid_root, sampled_ok, set_log, only_timeouts,
                   exchanges, xvars, restvars>>

\* one iteration of the sampling loop: an exchange with the host
Query ==
    /\ pc = "sample"
    /\ si < samples
    /\ \E env \in RunEnvs :
         LET r == query_ntp_server(env)
         IN  /\ results' = Append(results, r.error)
             /\ success_count' = IF r.error = NTP_SUCCESS THEN success_count + 1
                                 ELSE success_count
             /\ only_timeouts' = (only_timeouts /\ r.error = NTP_ERR_RECV_TIMEOUT)
             /\ sum_time' =
                  IF r.error = NTP_SUCCESS
                  THEN Append(sum_time,
                         <<host, si, env.bytes,
                           validate_ntp_response(env.packet, t1_sec_of(env.t1),
                                                 env.t1_frac, env.ub)>>)
                  ELSE sum_time
    /\ si' = si + 1
    /\ exchanges' = exchanges + 1
    /\ UNCHANGED <<argv, argi, samples, custom_server, pc, success, exit_code, fatal,
                   help_shown, host, result_error, uid_root, order, sampled_ok,
                   set_log, xvars, restvars>>

setter_called_whatever_the_result(err) == TRUE

\* if (result.error == NTP_SUCCESS), the guard of the call of the clock setter
setter_called(err) == err = NTP_SUCCESS

pool_loop_runs_past_the_pool(i) == i < INTERNAL_SERVER_COUNT + 1

\* for (int i = 0; i < INTERNAL_SERVER_COUNT; i++): i is the index after i++,
\* which is the number of the pool host just sampled
pool_loop_continues(i) == i < INTERNAL_SERVER_COUNT

\* what main does with the result of a host: the clock setter, then the next host
AfterSample(set_ok) ==
    LET err == multi_sample_error(success_count)
        set_error == set_system_time_platform(uid_root, set_ok)
        set == setter_called(err) /\ set_error = NTP_SUCCESS
        success1 == IF set THEN 1 ELSE success
    IN  /\ result_error' = err
        /\ sampled_ok' = IF err = NTP_SUCCESS THEN sampled_ok \cup {host} ELSE sampled_ok
        /\ set_log' = IF setter_called(err) THEN Append(set_log, <<host, set_error>>)
                      ELSE set_log
        /\ success' = success1
        /\ \/ /\ host = 0
              /\ stage2_entered(success1)
              /\ CallMultiSample(1)
           \/ /\ host = 0
              /\ ~stage2_entered(success1)
              /\ pc' = "end"
              /\ UNCHANGED <<host, si, success_count, results, sum_time, order>>
           \/ /\ host >= 1
              /\ ~(set /\ pool_loop_breaks(set_error))
              /\ pool_loop_continues(host)
              /\ CallMultiSample(host + 1)
           \/ /\ host >= 1
              /\ \/ (set /\ pool_loop_breaks(set_error))
                 \/ ~pool_loop_continues(host)
              /\ pc' = "end"
              /\ UNCHANGED <<host, si, success_count, results, sum_time, order>>

\* the return of sync_with_server_multi_sample and main up to the next call
SampleReturn ==
    /\ pc = "sample"
    /\ ~(si < samples)
    /\ \E set_ok \in BOOLEAN : AfterSample(set_ok)
    /\ UNCHANGED <<argv, argi, samples, custom_server, exit_code, fatal, help_shown,
                   uid_root, only_timeouts, exchanges, xvars, restvars>>

\* the end of main
Finish ==
    /\ pc = "end"
    /\ Return(exit_status(success), IF success = 0 THEN "all_failed" ELSE "none")
    /\ UNCHANGED <<argv, argi, samples, custom_server, success, help_shown, host, si,
                   success_count, results, result_error, uid_root, order, sampled_ok,
                   set_log, only_timeouts, sum_time, exchanges, xvars, restvars>>

Next == ParseArg \/ Stage1 \/ Query \/ SampleReturn \/ Finish

Spec == Init /\ [][Next]_vars

-----------------------------------------------------------------------------
(* XSpec: one exchange on an environment of WideEnvs                       *)

XInit ==
    /\ argv = <<>>
    /\ uid_root = FALSE
    /\ MainInit
    /\ x_env \in WideEnvs
    /\ x_result = [error |-> NTP_ERR_DNS_FAILED]
    /\ x_done = FALSE
    /\ RestIdle

XQuery ==
    /\ ~x_done
    /\ x_result' = query_ntp_server(x_env)
    /\ x_done' = TRUE
    /\ UNCHANGED <<x_env, mainvars, restvars>>

XNext == XQuery

XSpec == XInit /\ [][XNext]_vars

-----------------------------------------------------------------------------
(* Vocabulary of the properties                                            *)

\* the host name syntax in words: letters, digits, '.', '-'; length 1..255
WellFormedName(h) ==
    /\ Len(h) >= 1
    /\ Len(h) <= 255
    /\ \A k \in 1..Len(h) : h[k] \in Lower \cup Upper \cup Digit \cup {".", "-"}

ClockWasSet == \E k \in 1..Len(set_log) : set_log[k][2] = NTP_SUCCESS

PoolHosts == 1..INTERNAL_SERVER_COUNT

PoolOrder == SelectSeq(order, LAMBDA h : h >= 1)

Last(q) == q[Len(q)]

\* C1: a user host name that fails the syntax check ends the run with exit
\* code 1, with no exchange started against any host and no call of the clock
\* setter.
C1_InvalidHostnameNoExchange ==
    (/\ argi > Len(argv)
     /\ custom_server # <<>>
     /\ ~WellFormedName(custom_server[1]))
    => /\ order = <<>>
       /\ results = <<>>
       /\ set_log = <<>>
       /\ pc \in {"parse", "done"}
       /\ (pc = "done" => exit_code = 1 /\ fatal = "invalid_hostname")

C1_Witness ==
    /\ pc = "done"
    /\ exit_code = 1
    /\ custom_server = << <<"a", "/", "b">> >>
    /\ argi > Len(argv)
    /\ samples = 2

\* C2 (as claimed): the pool hosts are sampled in their declared order, pool
\* host k+1 only after the sampling of pool host k has failed, and the time
\* applied to the clock is the aggregate of the first pool host whose sampling
\* succeeded; the pool is sampled whenever there is no user host or the user
\* host had no successful sample.
C2_PoolWalkFirstSuccessApplied ==
    (custom_server = <<>> \/ 0 \notin sampled_ok) =>
       /\ \A k \in 1..Len(PoolOrder) : PoolOrder[k] = k
       /\ \A k \in PoolHosts : (k + 1) \in PoolHosts /\ Len(PoolOrder) >= k + 1
                                  => k \notin sampled_ok
       /\ \A j \in 1..Len(set_log) :
             set_log[j][2] = NTP_SUCCESS /\ set_log[j][1] >= 1
               => \A k \in PoolHosts : k < set_log[j][1] => k \notin sampled_ok
       /\ (pc = "done" /\ ~help_shown
             /\ fatal \notin {"samples_range", "samples_missing", "invalid_hostname"}
           => Len(PoolOrder) >= 1)

\* C3: once the clock has been set from some host, no further exchange takes
\* place and no further host is sampled: after a success of the user host no
\* pool host is contacted, after a success of pool host k no later pool host.
C3_NoExchangeAfterSuccess ==
    /\ [][success = 1 => (order' = order /\ results' = results /\ si' = si)]_vars
    /\ [](ClockWasSet =>
            /\ success = 1
            /\ Last(order) = Last(set_log)[1]
            /\ Last(set_log)[2] = NTP_SUCCESS
            /\ (Last(set_log)[1] = 0 => PoolOrder = <<>>)
            /\ \A k \in PoolHosts :
                  Last(set_log)[1] = k => \A j \in 1..Len(PoolOrder) : PoolOrder[j] <= k)

C3_Witness ==
    /\ pc = "done"
    /\ success = 1
    /\ order = <<0, 1, 2>>
    /\ ClockWasSet

\* C4: when every exchange of the run ended in a receive timeout, the clock
\* setter is never invoked, and the run ends in failure with a non-zero exit
\* code after every configured server has been tried.
C4_AllTimeoutsFailure ==
    (only_timeouts /\ order # <<>>) =>
       /\ set_log = <<>>
       /\ success = 0
       /\ (pc = "done" =>
             /\ exit_code # 0
             /\ fatal = "all_failed"
             /\ PoolOrder = <<1, 2, 3>>
             /\ (custom_server # <<>> => order[1] = 0))

C4_Witness ==
    /\ pc = "done"
    /\ only_timeouts
    /\ order = <<0, 1, 2, 3>>
    /\ samples = 2
    /\ exit_code = 1

\* C5 (as claimed): after the clock setter has failed with PermissionDenied
\* no further host is sampled and no further exchange is made, and the run
\* ends in failure.
C5_PermissionDeniedTerminal ==
    \A j \in 1..Len(set_log) :
        set_log[j][2] = NTP_ERR_PERMISSION_DENIED =>
           /\ Last(order) = set_log[j][1]
           /\ pc \in {"end", "done"}
           /\ success = 0

\* C6: the clock is written at most once in a run: at most one invocation of
\* the clock setter succeeds and none follows a successful one.
C6_ClockWrittenAtMostOnce ==
    \A j \in 1..Len(set_log) : set_log[j][2] = NTP_SUCCESS => j = Len(set_log)

C6_Witness ==
    /\ pc = "done"
    /\ Len(set_log) = 2
    /\ set_log[1][2] = NTP_ERR_SET_TIME_FAILED
    /\ set_log[2][2] = NTP_SUCCESS

\* C7: a run that does not show the help exits with 0 exactly when the clock
\* was set from some host, and with 1 otherwise: on a sample count outside
\* [1,5], on a missing sample count, on an invalid host name, and when the
\* user host and the whole pool are exhausted.
C7_ExitCode ==
    (pc = "done" /\ ~help_shown) =>
       /\ exit_code \in {0, 1}
       /\ (exit_code = 0 <=> ClockWasSet)
       /\ (fatal # "none" <=> exit_code = 1)
       /\ (fatal = "samples_range" =>
             argv[argi] = Str_s /\ atoi(argv[argi + 1]) \notin 1..5)
       /\ (fatal = "samples_missing" => argv[argi] = Str_s /\ argi = Len(argv))
       /\ (fatal = "invalid_hostname" => ~WellFormedName(custom_server[1]))
       /\ (fatal = "all_failed" => Last(order) = INTERNAL_SERVER_COUNT)

C7_Witness ==
    /\ pc = "done"
    /\ ~help_shown
    /\ exit_code = 0
    /\ samples = 2
    /\ order = <<0, 1>>

-----------------------------------------------------------------------------
(* The exchange and the validator (XSpec)                                  *)

XPacket == x_env.packet
XMode == XPacket.li_vn_mode % 8
XOrigin == ntohl(XPacket.orig_ts_sec)
XSent == t1_sec_of(x_env.t1)
XTransmit == <<ntohl(XPacket.trans_ts_sec), ntohl(XPacket.trans_ts_frac)>>
XResponded == x_done /\ x_env.dns_ok /\ x_env.sock_ok /\ x_env.send_ok
                 /\ x_env.bytes >= 48
XAccepted == x_result.error = NTP_SUCCESS

\* |a - b| <= 1 for the 32-bit values a and b
AbsDiffAtMost1(a, b) ==
    \/ a = b
    \/ a # U32(HALF - 1, HALF - 1) /\ Add32(a, U32(0, 1)) = b
    \/ b # U32(HALF - 1, HALF - 1) /\ Add32(b, U32(0, 1)) = a

\* C8 (as claimed): a response whose origin second equals the sent second and
\* whose transmit timestamp is not zero is accepted exactly when its mode is
\* 4 or 5 and its stratum is in 1..15.
C8_AcceptIffModeAndStratum ==
    (XResponded /\ XOrigin = XSent /\ XTransmit # <<U32(0, 0), U32(0, 0)>>)
    => (XAccepted <=> (XMode \in {4, 5} /\ XPacket.stratum \in 1..15))

\* C9 (as claimed): an otherwise valid response is rejected when the origin
\* second and the sent second differ by more than 1 as 32-bit values, and
\* accepted when they differ by at most 1.
C9_OriginToleranceExact ==
    (XResponded /\ XMode \in {4, 5} /\ XPacket.stratum \in 1..15
        /\ XTransmit[1] # U32(0, 0))
    => (XAccepted <=> AbsDiffAtMost1(XOrigin, XSent))

\* C10 (as claimed): an exchange whose response fails on the stratum alone
\* returns InvalidStratum.
C10_StratumCauseDistinct ==
    (XResponded /\ XMode \in {4, 5} /\ XPacket.stratum \notin 1..15
        /\ AbsDiffAtMost1(XOrigin, XSent) /\ XTransmit[1] # U32(0, 0))
    => x_result.error = NTP_ERR_INVALID_STRATUM

\* C19 (as claimed): with mode, stratum and origin second in order, the
\* validator rejects exactly when the transmit timestamp, seconds and fraction
\* together, is zero; seconds 0 with a non-zero fraction is accepted.
C19_TransmitZeroExactly ==
    (XResponded /\ XMode \in {4, 5} /\ XPacket.stratum \in 1..15 /\ XOrigin = XSent)
    => (~XAccepted <=> XTransmit = <<U32(0, 0), U32(0, 0)>>)

-----------------------------------------------------------------------------
(* Properties of the run, continued                                        *)

\* C20: the sampling of a host only ever runs with a sample count in 1..5: a
\* count outside 1..5 or a missing count ends the run with exit code 1 before
\* any exchange, so the index into the 5 result slots stays within 0..4 and
\* no host gets more than 5 exchanges.
C20_SampleCountInRange ==
    /\ (fatal # "samples_range" => samples \in 1..5)
    /\ (fatal \in {"samples_range", "samples_missing"} =>
          pc = "done" /\ exit_code = 1 /\ order = <<>> /\ results = <<>>)
    /\ (fatal = "samples_range" => samples \notin 1..5)
    /\ (pc = "sample" /\ si < samples => si \in 0..4)
    /\ (order # <<>> => si <= samples /\ Len(results) = si /\ Len(results) <= 5)

C20_Witness ==
    /\ pc = "done"
    /\ fatal = "samples_range"
    /\ samples = 6
    /\ exit_code = 1
    /\ order = <<>>

-----------------------------------------------------------------------------
(* QSpec: one call of sync_with_server_multi_sample, query_ntp_server      *)
(* taken call by call, with the socket it holds                            *)

\* Spec and XSpec are not running
MainIdle ==
    /\ argv = <<>>
    /\ uid_root = FALSE
    /\ MainInit
    /\ x_env = NoEnv
    /\ x_result = [error |-> NTP_ERR_DNS_FAILED]
    /\ x_done = FALSE

\* the descriptor socket() returns
SOCK_FD == 3

IS_INVALID_SOCKET(sock) == sock < 0

cleanup_never_closes(sock) == FALSE

\* cleanup: if (!IS_INVALID_SOCKET(sock)) CLOSE_SOCKET(sock)
cleanup_closes(sock) == ~IS_INVALID_SOCKET(sock)

response_short_only_on_error(bytes) == bytes < 0

\* if (bytes < NTP_PACKET_SIZE)
response_short(bytes) == bytes < NTP_PACKET_SIZE

sample_loop_stops_one_early(i, n) == i < n - 1

\* for (int i = 0; i < samples; i++)
sample_loop_continues(i, n) == i < n

QInit ==
    /\ MainIdle
    /\ PIdle
    /\ AIdle
    /\ q_pc = "loop"
    /\ q_samples \in 1..MAX_SAMPLES
    /\ q_i = 0
    /\ q_sock = -1
    /\ q_open = 0
    /\ q_error = NTP_ERR_DNS_FAILED
    /\ q_bytes = -1
    /\ q_steps = <<>>
    /\ q_results = <<>>
    /\ q_success_count = 0
    /\ q_final = "none"

\* query_ntp_server returns err: the rest of the loop body
QStore(err) ==
    /\ q_results' = Append(q_results, err)
    /\ q_success_count' = IF err = NTP_SUCCESS THEN q_success_count + 1
                          ELSE q_success_count
    /\ q_i' = q_i + 1
    /\ q_pc' = "loop"

\* what the steps of QSpec leave alone
qrest == <<mainvars, xvars, pvars, avars>>

\* the loop head and the entry of query_ntp_server
QCall ==
    /\ q_pc = "loop"
    /\ sample_loop_continues(q_i, q_samples)
    /\ q_sock' = -1
    /\ q_error' = NTP_ERR_DNS_FAILED
    /\ q_bytes' = -1
    /\ q_steps' = <<>>
    /\ q_pc' = "dns"
    /\ UNCHANGED <<q_samples, q_i, q_open, q_results, q_success_count, q_final, qrest>>

\* getaddrinfo; on failure the function returns at once
QDns ==
    /\ q_pc = "dns"
    /\ \E ok \in {0, 1} :
         /\ q_steps' = Append(q_steps, <<"getaddrinfo", ok>>)
         /\ \/ /\ ok = 0
               /\ QStore(q_error)
            \/ /\ ok = 1
               /\ q_pc' = "socket"
               /\ UNCHANGED <<q_i, q_results, q_success_count>>
    /\ UNCHANGED <<q_samples, q_sock, q_open, q_error, q_bytes, q_final, qrest>>

\* socket and setsockopt
QSocket ==
    /\ q_pc = "socket"
    /\ \E ok \in {0, 1} :
         /\ q_steps' = Append(q_steps, <<"socket", ok>>)
         /\ \/ /\ ok = 0
               /\ q_sock' = -1
               /\ q_error' = NTP_ERR_SOCKET_CREATE
               /\ q_pc' = "cleanup"
               /\ UNCHANGED q_open
            \/ /\ ok = 1
               /\ q_sock' = SOCK_FD
               /\ q_open' = q_open + 1
               /\ q_pc' = "send"
               /\ UNCHANGED q_error
    /\ UNCHANGED <<q_samples, q_i, q_bytes, q_results, q_success_count, q_final, qrest>>

\* the request is built and sent
QSend ==
    /\ q_pc = "send"
    /\ \E ok \in {0, 1} :
         /\ q_steps' = Append(q_steps, <<"sendto", ok>>)
         /\ \/ /\ ok = 0
               /\ q_error' = NTP_ERR_SEND_FAILED
               /\ q_pc' = "cleanup"
            \/ /\ ok = 1
               /\ q_pc' = "recv"
               /\ UNCHANGED q_error
    /\ UNCHANGED <<q_samples, q_i, q_sock, q_open, q_bytes, q_results,
                   q_success_count, q_final, qrest>>

\* recv and the length check
QRecv ==
    /\ q_pc = "recv"
    /\ \E bytes \in {-1, 0, NTP_PACKET_SIZE - 1, NTP_PACKET_SIZE} :
         /\ q_bytes' = bytes
         /\ q_steps' = Append(q_steps, <<"recv", bytes>>)
         /\ \/ /\ response_short(bytes)
               /\ q_error' = NTP_ERR_RECV_TIMEOUT
               /\ q_pc' = "cleanup"
            \/ /\ ~response_short(bytes)
               /\ q_pc' = "validate"
               /\ UNCHANGED q_error
    /\ UNCHANGED <<q_samples, q_i, q_sock, q_open, q_results, q_success_count, q_final,
                   qrest>>

\* validate_ntp_response on the buffer, then the timestamps
QValidate ==
    /\ q_pc = "validate"
    /\ \E packet \in RunPackets :
         LET v == validate_ntp_response(packet, t1_sec_of(T1_RUN), U32(0, 0), FALSE)
         IN  /\ q_steps' = Append(q_steps, <<"validate", v>>)
             /\ q_error' = IF v = 0 THEN NTP_ERR_INVALID_RESPONSE ELSE NTP_SUCCESS
    /\ q_pc' = "cleanup"
    /\ UNCHANGED <<q_samples, q_i, q_sock, q_open, q_bytes, q_results,
                   q_success_count, q_final, qrest>>

\* cleanup: and the return of query_ntp_server
QCleanup ==
    /\ q_pc = "cleanup"
    /\ \/ /\ cleanup_closes(q_sock)
          /\ q_open' = q_open - 1
          /\ q_steps' = Append(q_steps, <<"close", q_sock>>)
       \/ /\ ~cleanup_closes(q_sock)
          /\ UNCHANGED <<q_open, q_steps>>
    /\ QStore(q_error)
    /\ UNCHANGED <<q_samples, q_sock, q_error, q_bytes, q_final, qrest>>

\* after the loop: the value sync_with_server_multi_sample returns
QReturn ==
    /\ q_pc = "loop"
    /\ ~sample_loop_continues(q_i, q_samples)
    /\ q_final' = multi_sample_error(q_success_count)
    /\ q_pc' = "returned"
    /\ UNCHANGED <<q_samples, q_i, q_sock, q_open, q_error, q_bytes, q_steps,
                   q_results, q_success_count, qrest>>

QNext ==
    \/ QCall \/ QDns \/ QSocket \/ QSend \/ QRecv \/ QValidate \/ QCleanup \/ QReturn

QSpec == QInit /\ [][QNext]_vars

-----------------------------------------------------------------------------
(* Properties of QSpec                                                     *)

\* the exchange most recently entered has returned
QExchangeReturned == q_pc \in {"loop", "returned"} /\ q_i > 0

QCalled(call) == \E k \in 1..Len(q_steps) : q_steps[k][1] = call

QValue(call) == q_steps[CHOOSE k \in 1..Len(q_steps) : q_steps[k][1] = call][2]

\* C11: every exchange releases its socket before it returns, on every exit
\* path: no socket is open between exchanges or when the run has ended, none
\* is open before socket() is called, and at most one is open at any moment.
C11_SocketReleasedOnEveryPath ==
    /\ q_open \in {0, 1}
    /\ (q_pc \in {"loop", "returned", "dns", "socket"} => q_open = 0)
    /\ (QExchangeReturned /\ QCalled("socket") /\ QValue("socket") = 1
          => QCalled("close"))

C11_Witness ==
    /\ q_pc = "returned"
    /\ q_samples = 2
    /\ q_results = <<NTP_ERR_SEND_FAILED, NTP_SUCCESS>>
    /\ QCalled("close")
    /\ q_open = 0

\* C12: a run with sample count n performs exactly n exchanges on the host,
\* one after another whatever their outcomes, and the host is reported as
\* failed if and only if none of the n samples succeeded.
C12_ExactlyNExchanges ==
    /\ Len(q_results) = q_i
    /\ q_i <= q_samples
    /\ (q_pc \in {"dns", "socket", "send", "recv", "validate", "cleanup"} => q_i < q_samples)
    /\ (q_pc = "returned" =>
          /\ Len(q_results) = q_samples
          /\ (q_final # NTP_SUCCESS <=>
                \A k \in 1..Len(q_results) : q_results[k] # NTP_SUCCESS))

C12_Witness ==
    /\ q_pc = "returned"
    /\ q_samples = 3
    /\ q_results = <<NTP_ERR_DNS_FAILED, NTP_ERR_RECV_TIMEOUT, NTP_SUCCESS>>
    /\ q_final = NTP_SUCCESS

\* the error kind of the first step that failed, read off the calls made
FirstFailure ==
    IF QValue("getaddrinfo") = 0 THEN NTP_ERR_DNS_FAILED
    ELSE IF QValue("socket") = 0 THEN NTP_ERR_SOCKET_CREATE
    ELSE IF QValue("sendto") = 0 THEN NTP_ERR_SEND_FAILED
    ELSE IF QValue("recv") < 48 THEN NTP_ERR_RECV_TIMEOUT
    ELSE IF QValue("validate") = 0 THEN NTP_ERR_INVALID_RESPONSE
    ELSE NTP_SUCCESS

\* C17: a failed exchange returns the error kind of the first step that
\* failed, in step order; a resolution failure opens no socket; a timeout and
\* a length below 48 both give the receive-timeout kind; validation is only
\* reached after at least 48 bytes; success needs every step to pass.
C17_FirstFailingStep ==
    /\ (QCalled("validate") => QCalled("recv") /\ QValue("recv") >= 48)
    /\ (QCalled("socket") => QValue("getaddrinfo") = 1)
    /\ (QCalled("sendto") => QValue("socket") = 1)
    /\ (QCalled("recv") => QValue("sendto") = 1)
    /\ (QExchangeReturned =>
          /\ Last(q_results) = FirstFailure
          /\ (Last(q_results) = NTP_ERR_DNS_FAILED => ~QCalled("socket"))
          /\ (Last(q_results) = NTP_SUCCESS =>
                /\ QValue("getaddrinfo") = 1 /\ QValue("socket") = 1
                /\ QValue("sendto") = 1 /\ QValue("recv") >= 48
                /\ QValue("validate") = 1))

C17_Witness ==
    /\ QExchangeReturned
    /\ Last(q_results) = NTP_ERR_RECV_TIMEOUT
    /\ QValue("recv") = 47
    /\ ~QCalled("validate")

\* C18: when every sample of a host failed, the cause reported for the host
\* is not collapsed to one fixed kind: a host whose samples all failed with
\* the resolution error is never reported with the receive-timeout kind.
C18_CauseNotCollapsed ==
    (/\ q_pc = "returned"
     /\ \A k \in 1..Len(q_results) : q_results[k] = NTP_ERR_DNS_FAILED)
    => q_final # NTP_ERR_RECV_TIMEOUT

-----------------------------------------------------------------------------
(* PSpec: the request packet and the timestamp codec.                      *)
(* A time t is [sec, frac, sub]: sec whole seconds, frac units of 2^-32 s  *)
(* and sub further units of 2^-32 / FracSub s, so t has a finer resolution *)
(* than the wire format.  The rounding of double arithmetic is left out.   *)

FracSub == 4

\* uint64_t as <<high word, low word>>
U64(high, low) == <<high, low>>

Less32(a, b) == a[1] < b[1] \/ (a[1] = b[1] /\ a[2] < b[2])

\* a - b in unsigned long long, a and b below 2^32
Sub64(a, b) ==
    U64(IF Less32(a, b) THEN U32(HALF - 1, HALF - 1) ELSE U32(0, 0), Sub32(a, b))

\* uint32_t t1_frac = (uint32_t)((t1 - (uint32_t)t1) * 4294967296.0):
\* the product is t.frac + t.sub / FracSub and the conversion truncates it
t1_frac_of(t) == t.frac

\* (double)(t3_sec - NTP_TIMESTAMP_DELTA) + (double)t3_fra / 4294967296.0,
\* the subtraction being done in unsigned long long
t3_of(t3_sec, t3_fra) == [sec |-> Sub64(t3_sec, NTP_TIMESTAMP_DELTA), frac |-> t3_fra]

\* ntp_packet packet = {0}
ZeroPacket ==
    [li_vn_mode |-> 0, stratum |-> 0, poll |-> 0, precision |-> 0,
     root_delay |-> U32(0, 0), root_dispersion |-> U32(0, 0),
     reference_id |-> U32(0, 0),
     ref_ts_sec |-> U32(0, 0), ref_ts_frac |-> U32(0, 0),
     orig_ts_sec |-> U32(0, 0), orig_ts_frac |-> U32(0, 0),
     recv_ts_sec |-> U32(0, 0), recv_ts_frac |-> U32(0, 0),
     trans_ts_sec |-> U32(0, 0), trans_ts_frac |-> U32(0, 0)]

\* sizeof(ntp_packet) under #pragma pack(1): four bytes and eleven words
sizeof_ntp_packet == 4 * 1 + 11 * 4

\* the request of revision v0.3
request_part_000(t1_sec, t1_frac) ==
    [ZeroPacket EXCEPT !.li_vn_mode = 27,
                       !.trans_ts_sec = htonl(t1_sec),
                       !.trans_ts_frac = htonl(t1_frac)]

\* the request of revision v1.1: t1 is read but not written to the packet
request_part_001 == [ZeroPacket EXCEPT !.li_vn_mode = 27]

\* the request of ntpc.exe.c
request_ntpc_exe == [ZeroPacket EXCEPT !.li_vn_mode = 27]

Variants == {"part_000", "part_001", "ntpc.exe.c"}

\* 2085978495 = 0x7C55817F is the last second whose NTP seconds fit 32 bits
Times ==
    { [sec |-> sec, frac |-> frac, sub |-> sub] :
        sec \in {U32(0, 0), U32(0, 1), T1_RUN, U32(31829, 33151), U32(31829, 33152),
                 U32(31829, 33153), U32(HALF - 1, HALF - 1)},
        frac \in {U32(0, 0), U32(0, 1), U32(HALF \div 2, 0), U32(HALF - 1, HALF - 1)},
        sub \in 0..(FracSub - 1) }

PInit ==
    /\ MainIdle
    /\ QIdle
    /\ AIdle
    /\ p_pc = "start"
    /\ p_variant \in Variants
    /\ p_t \in Times
    /\ p_pair = <<>>
    /\ p_request = <<>>
    /\ p_decoded = <<>>

\* what the steps of PSpec leave alone
prest == <<mainvars, xvars, qvars, avars>>

\* v0.3: t1_sec and t1_frac are computed from t1
PEncode ==
    /\ p_pc = "start"
    /\ p_variant = "part_000"
    /\ p_pair' = <<t1_sec_of(p_t.sec), t1_frac_of(p_t)>>
    /\ p_pc' = "encoded"
    /\ UNCHANGED <<p_variant, p_t, p_request, p_decoded, prest>>

\* the packet handed to sendto
PSend ==
    /\ \/ /\ p_variant = "part_000"
          /\ p_pc = "encoded"
          /\ p_request' = request_part_000(p_pair[1], p_pair[2])
       \/ /\ p_variant = "part_001"
          /\ p_pc = "start"
          /\ p_request' = request_part_001
       \/ /\ p_variant = "ntpc.exe.c"
          /\ p_pc = "start"
          /\ p_request' = request_ntpc_exe
    /\ p_pc' = "sent"
    /\ UNCHANGED <<p_variant, p_t, p_pair, p_decoded, prest>>

\* a response whose transmit timestamp is the request's is decoded
PDecode ==
    /\ p_pc = "sent"
    /\ p_variant \in {"part_000", "part_001"}
    /\ p_decoded' = t3_of(ntohl(p_request.trans_ts_sec), ntohl(p_request.trans_ts_frac))
    /\ p_pc' = "decoded"
    /\ UNCHANGED <<p_variant, p_t, p_pair, p_request, prest>>

PNext == PEncode \/ PSend \/ PDecode

PSpec == PInit /\ [][PNext]_vars

-----------------------------------------------------------------------------
(* Properties of PSpec                                                     *)

PSent == p_pc \in {"sent", "decoded"}

\* floor(t) + 2208988800 modulo 2^32, and the whole units of 2^-32 s
EncodedTime(t) == <<Add32(t.sec, U32(33706, 32384)), t.frac>>

OtherBytes == {"stratum", "poll", "precision"}

OtherWords ==
    {"root_delay", "root_dispersion", "reference_id", "ref_ts_sec", "ref_ts_frac",
     "orig_ts_sec", "orig_ts_frac", "recv_ts_sec", "recv_ts_frac"}

\* d is t to within one unit of 2^-32 s
WithinOneUnit(d, t) ==
    /\ d.sec = U64(U32(0, 0), t.sec)
    /\ \/ d.frac = t.frac
       \/ /\ t.frac # U32(HALF - 1, HALF - 1)
          /\ d.frac = Add32(t.frac, U32(0, 1))
       \/ /\ t.sub = 0
          /\ t.frac # U32(0, 0)
          /\ d.frac = Sub32(t.frac, U32(0, 1))

\* C14: every outgoing request is 48 bytes long, has 0x1B in byte 0, carries
\* the encoded client send time T1 in its transmit-timestamp pair and has
\* zero in every other field.
C14_RequestCarriesT1 ==
    PSent =>
        /\ sizeof_ntp_packet = 48
        /\ p_request.li_vn_mode = 27
        /\ <<ntohl(p_request.trans_ts_sec), ntohl(p_request.trans_ts_frac)>>
             = EncodedTime(p_t)
        /\ \A f \in OtherBytes : p_request[f] = 0
        /\ \A f \in OtherWords : p_request[f] = U32(0, 0)

\* C15: decoding the pair that encodes a time t recovers t to within 2^-32 s,
\* the seconds field being floor(t) + 2208988800 modulo 2^32; also for times
\* whose NTP seconds exceed 2^32 - 1.
C15_CodecRoundTrip ==
    (p_pc = "decoded" /\ p_variant = "part_000") =>
        /\ p_pair = EncodedTime(p_t)
        /\ WithinOneUnit(p_decoded, p_t)

-----------------------------------------------------------------------------
(* ASpec: the arithmetic of one call of sync_with_server_multi_sample.     *)
(* A double is the exact rational <<num, den>>, den > 0, in lowest terms;  *)
(* the rounding of double arithmetic is left out.                          *)

RECURSIVE GCD(_, _)
GCD(a, b) == IF b = 0 THEN a ELSE GCD(b, a % b)

Rat(n, d) ==
    LET g == GCD(IF n < 0 THEN -n ELSE n, d)
    IN  <<n \div g, d \div g>>

RAdd(a, b) == Rat(a[1] * b[2] + b[1] * a[2], a[2] * b[2])

RSub(a, b) == Rat(a[1] * b[2] - b[1] * a[2], a[2] * b[2])

\* a / k for an integer k > 0
RDiv(a, k) == Rat(a[1], a[2] * k)

result_delay_clamped(t1, t2, t3, t4) ==
    LET d == RSub(RSub(t4, t1), RSub(t3, t2))
    IN  IF d[1] < 0 THEN Rat(0, 1) ELSE d

\* result.delay = (t4 - t1) - (t3 - t2)
result_delay(t1, t2, t3, t4) == RSub(RSub(t4, t1), RSub(t3, t2))

\* result.corrected_time = t3 + (result.delay / 2.0)
result_corrected_time(t3, delay) == RAdd(t3, RDiv(delay, 2))

final_mean_over_attempts(sum, count, attempts) == RDiv(sum, attempts)

\* final.corrected_time = sum_time / success_count, and likewise final.delay
final_mean(sum, count, attempts) == RDiv(sum, count)

\* <<t1, t2, t3, t4>> of the exchanges that succeed
SampleTimes ==
    { <<Rat(0, 1), Rat(10, 1), Rat(101, 10), Rat(1, 5)>>,
      <<Rat(0, 1), Rat(19999, 200), Rat(19999, 200), Rat(1, 100)>>,
      <<Rat(0, 1), Rat(10009, 100), Rat(10009, 100), Rat(1, 50)>>,
      <<Rat(0, 1), Rat(10, 1), Rat(11, 1), Rat(1, 2)>>,
      <<Rat(1, 1), Rat(5, 1), Rat(5, 1), Rat(1, 1)>> }

\* the error kinds of the exchanges that fail
SampleFailures == {NTP_ERR_DNS_FAILED, NTP_ERR_RECV_TIMEOUT}

AInit ==
    /\ MainIdle
    /\ QIdle
    /\ PIdle
    /\ a_pc = "loop"
    /\ a_samples \in 1..MAX_SAMPLES
    /\ a_i = 0
    /\ a_results = <<>>
    /\ a_sum_time = Rat(0, 1)
    /\ a_sum_delay = Rat(0, 1)
    /\ a_success_count = 0
    /\ a_final = <<>>

\* what the steps of ASpec leave alone
arest == <<mainvars, xvars, qvars, pvars>>

\* results[i] = query_ntp_server(hostname) succeeds
ASampleSucceeds ==
    /\ a_pc = "loop"
    /\ sample_loop_continues(a_i, a_samples)
    /\ \E ts \in SampleTimes :
         LET delay == result_delay(ts[1], ts[2], ts[3], ts[4])
             corrected_time == result_corrected_time(ts[3], delay)
         IN  /\ a_results' = Append(a_results,
                   [corrected_time |-> corrected_time, delay |-> delay,
                    error |-> NTP_SUCCESS, ts |-> ts])
             /\ a_sum_time' = RAdd(a_sum_time, corrected_time)
             /\ a_sum_delay' = RAdd(a_sum_delay, delay)
    /\ a_success_count' = a_success_count + 1
    /\ a_i' = a_i + 1
    /\ UNCHANGED <<a_pc, a_samples, a_final, arest>>

\* results[i] = query_ntp_server(hostname) fails
ASampleFails ==
    /\ a_pc = "loop"
    /\ sample_loop_continues(a_i, a_samples)
    /\ \E err \in SampleFailures :
         a_results' = Append(a_results,
             [corrected_time |-> Rat(0, 1), delay |-> Rat(0, 1), error |-> err,
              ts |-> <<>>])
    /\ a_i' = a_i + 1
    /\ UNCHANGED <<a_pc, a_samples, a_sum_time, a_sum_delay, a_success_count,
                   a_final, arest>>

\* after the loop
AReturn ==
    /\ a_pc = "loop"
    /\ ~sample_loop_continues(a_i, a_samples)
    /\ a_final' =
         IF a_success_count = 0
         THEN [corrected_time |-> Rat(0, 1), delay |-> Rat(0, 1),
               error |-> multi_sample_error(a_success_count)]
         ELSE [corrected_time |-> final_mean(a_sum_time, a_success_count, a_samples),
               delay |-> final_mean(a_sum_delay, a_success_count, a_samples),
               error |-> multi_sample_error(a_success_count)]
    /\ a_pc' = "returned"
    /\ UNCHANGED <<a_samples, a_i, a_results, a_sum_time, a_sum_delay,
                   a_success_count, arest>>

ANext == ASampleSucceeds \/ ASampleFails \/ AReturn

ASpec == AInit /\ [][ANext]_vars

-----------------------------------------------------------------------------
(* Properties of ASpec                                                     *)

Succeeded == {k \in 1..Len(a_results) : a_results[k].error = NTP_SUCCESS}

\* a * k for an integer k
Times_k(a, k) == Rat(a[1] * k, a[2])

RECURSIVE SumOf(_, _)
SumOf(field, ks) ==
    IF ks = {} THEN Rat(0, 1)
    ELSE LET k == CHOOSE x \in ks : TRUE
         IN  RAdd(a_results[k][field], SumOf(field, ks \ {k}))

\* C13: when at least one sample succeeds, the aggregate corrected time and
\* delay are each the arithmetic mean of the successful samples' values only:
\* the divisor is the success count, not the attempt count.
C13_MeanOfSuccessfulOnly ==
    (a_pc = "returned" /\ Succeeded # {}) =>
        /\ a_final.error = NTP_SUCCESS
        /\ Times_k(a_final.corrected_time, Cardinality(Succeeded))
             = SumOf("corrected_time", Succeeded)
        /\ Times_k(a_final.delay, Cardinality(Succeeded)) = SumOf("delay", Succeeded)

\* samples {100.0, failed, 100.1} with delays {0.01, -, 0.02}: 100.05 and 0.015
C13_Witness ==
    /\ a_pc = "returned"
    /\ a_samples = 3
    /\ Succeeded = {1, 3}
    /\ a_results[1].corrected_time = <<100, 1>> /\ a_results[1].delay = <<1, 100>>
    /\ a_results[3].corrected_time = <<1001, 10>> /\ a_results[3].delay = <<1, 50>>
    /\ a_final.corrected_time = <<2001, 20>>
    /\ a_final.delay = <<3, 200>>

\* C16: every successful exchange has delay = (T4 - T1) - (T3 - T2) and
\* corrected time = T3 + delay / 2, whatever the values: nothing is clamped
\* or rejected, a negative delay included.
C16_DelayAndCorrection ==
    \A k \in Succeeded :
        LET r == a_results[k]
            T1 == r.ts[1]
            T2 == r.ts[2]
            T3 == r.ts[3]
            T4 == r.ts[4]
        IN  /\ RAdd(r.delay, RAdd(T3, T1)) = RAdd(T4, T2)
            /\ RAdd(r.corrected_time, r.corrected_time) = RAdd(RAdd(T3, T3), r.delay)

\* T1 = 0, T2 = 10, T3 = 10.1, T4 = 0.2: delay 0.1 and corrected time 10.15;
\* and a sample whose delay is negative
C16_Witness ==
    /\ Len(a_results) = 2
    /\ a_results[1].error = NTP_SUCCESS
    /\ a_results[1].ts = <<<<0, 1>>, <<10, 1>>, <<101, 10>>, <<1, 5>>>>
    /\ a_results[1].delay = <<1, 10>>
    /\ a_results[1].corrected_time = <<203, 20>>
    /\ a_results[2].error = NTP_SUCCESS
    /\ a_results[2].delay = <<-1, 2>>
    /\ a_results[2].corrected_time = <<43, 4>>

-----------------------------------------------------------------------------
(* Properties of Spec: what reaches the clock setter                       *)

\* C21: the clock setter is invoked only with a time derived from at least
\* one exchange of the current host that returned success, that is, whose
\* response was at least 48 bytes long and passed the validator; nothing of a
\* rejected, short or missing response or of a previous host's samples is in
\* the time it is given.
C21_SetterOnlyFromCurrentSuccess ==
    [][set_log' # set_log =>
         /\ Len(set_log') = Len(set_log) + 1
         /\ Last(set_log')[1] = host
         /\ Len(results) = samples
         /\ sum_time # <<>>
         /\ \A k \in 1..Len(sum_time) :
               /\ sum_time[k][1] = host
               /\ sum_time[k][2] \in 0..(samples - 1)
               /\ results[sum_time[k][2] + 1] = NTP_SUCCESS
               /\ sum_time[k][3] >= 48
               /\ sum_time[k][4] = 1]_vars

\* pool host 1 succeeded and its time could not be applied; pool host 2's
\* first sample timed out, its second succeeded, and its time was applied
C21_Witness ==
    /\ pc = "end"
    /\ samples = 2
    /\ Len(set_log) = 2
    /\ set_log[1][1] = 1
    /\ set_log[1][2] # NTP_SUCCESS
    /\ set_log[2] = <<2, NTP_SUCCESS>>
    /\ results = <<NTP_ERR_RECV_TIMEOUT, NTP_SUCCESS>>
    /\ sum_time = << <<2, 1, 48, 1>> >>

-----------------------------------------------------------------------------
(* LiveSpec: the runs of main, every call returning.  main is sequential   *)
(* code: a step that can be taken is taken, the receive included, which    *)
(* returns with a response or when SO_RCVTIMEO expires.  The arguments     *)
(* include a user host that is also the first entry of the pool.           *)

Str_aliyun == <<"n", "t", "p", ".", "a", "l", "i", "y", "u", "n", ".", "c", "o", "m">>

Str_cloudflare ==
    <<"t", "i", "m", "e", ".", "c", "l", "o", "u", "d", "f", "l", "a", "r", "e", ".",
      "c", "o", "m">>

Str_pool == <<"p", "o", "o", "l", ".", "n", "t", "p", ".", "o", "r", "g">>

\* the characters of INTERNAL_NTP_SERVERS[1..3]
INTERNAL_NTP_SERVERS_CHARS == <<Str_aliyun, Str_cloudflare, Str_pool>>

\* the hostname argument of the call for host h
hostname_of(h) == IF h = 0 THEN custom_server[1] ELSE INTERNAL_NTP_SERVERS_CHARS[h]

LiveArgs ==
    { Str_h, Str_s, <<"2">>, <<"n", ".", "T", "-", "1">>, Str_aliyun, <<"a", "/", "b">> }

LiveInit ==
    /\ argv \in SeqsUpTo(LiveArgs, MaxArgs)
    /\ uid_root \in BOOLEAN
    /\ MainInit
    /\ x_env = NoEnv
    /\ x_result = [error |-> NTP_ERR_DNS_FAILED]
    /\ x_done = FALSE
    /\ RestIdle

LiveSpec == LiveInit /\ [][Next]_vars /\ WF_vars(Next)

-----------------------------------------------------------------------------
(* Properties of LiveSpec                                                  *)

PoolSize == Len(INTERNAL_NTP_SERVERS)

\* C22 (as claimed): every run terminates, after at most sampleCount x
\* (1 + poolSize) exchanges and at most 1 + poolSize invocations of the clock
\* setter, and no host is sampled a second time within one run.
C22_TerminatesNoHostTwice ==
    /\ <>(pc = "done")
    /\ [](/\ Len(order) <= 1 + PoolSize
          /\ exchanges <= samples * (1 + PoolSize)
          /\ Len(set_log) <= 1 + PoolSize
          /\ \A i, j \in 1..Len(order) :
                i < j => hostname_of(order[i]) # hostname_of(order[j]))

\* C22 (amended): every run terminates, after at most sampleCount x
\* (1 + poolSize) exchanges and at most 1 + poolSize invocations of the clock
\* setter; only the user host and the pool entries are sampled, each of them
\* at most once, and a host name is sampled a second time only when it is the
\* user host's name and also a pool entry's.
C22_TerminatesBounded ==
    /\ <>(pc = "done")
    /\ [](/\ Len(order) <= 1 + PoolSize
          /\ \A k \in 1..Len(order) : order[k] \in 0..PoolSize
          /\ exchanges <= samples * (1 + PoolSize)
          /\ Len(set_log) <= 1 + PoolSize
          /\ \A i, j \in 1..Len(order) :
                i < j => /\ order[i] # order[j]
                         /\ (hostname_of(order[i]) = hostname_of(order[j])
                               => order[i] = 0))

\* the longest run: the user host is ntp.aliyun.com, two samples per host,
\* every host answers and no time can be applied
C22_Witness ==
    /\ pc = "done"
    /\ custom_server = <<Str_aliyun>>
    /\ samples = 2
    /\ order = <<0, 1, 2, 3>>
    /\ exchanges = 8
    /\ Len(set_log) = 4
    /\ exit_code = 1

====
